---- MODULE Spec2Model ----
(***************************************************************************)
(* Dependency graph and Critical Path Method of the project tracker:       *)
(* detectCycle, topologicalSort, calculateEarliestTimes,                   *)
(* calculateLatestTimes, findCriticalPath and calculateTotalDuration of    *)
(* the DependencyGraph component, the component's add/remove handlers and  *)
(* the commit callbacks of the Projects page.                              *)
(***************************************************************************)
EXTENDS Integers, Sequences, FiniteSets, TLC

VARIABLES
    projects,       \* dependencyProjects of the Projects page, the component's prop
    localStorage,   \* the project-deps-<id> entries as read back: id -> dependency list
    selectedFrom,   \* component state: the dependent chosen ("depends on...")
    selectedTo,     \* component state: the dependency chosen ("is blocked by...")
    error,          \* component state: the message shown, or NoError
    committed,      \* whether the last click on Add Dependency called onDependencyAdd
    call,           \* the last application of a helper function and what it returned
    rendered,       \* the values the component's last render computed or kept
    lruCache,       \* an LRUCache object: capacity, size, cache and the linked nodes
    recency,        \* history: the keys put and not deleted or cleared, latest access first
    apiClient,      \* a CachedAPIClient: hitCount, missCount, errorCount (its cache is lruCache)
    fetches,        \* the fetchWithCache calls waiting for their fetch, oldest first
    NODE_ENV,       \* process.env.NODE_ENV
    trie,           \* the Trie of an AutocompleteService: its nodes by their path from the root
    indexed,        \* history: the lower-case words inserted and not removed
    searchArgs      \* the arguments of a fuzzySearch call: items, query, fields

vars == <<projects, localStorage, selectedFrom, selectedTo, error, committed, call, rendered,
          lruCache, recency, apiClient, fetches, NODE_ENV, trie, indexed, searchArgs>>

lruVars == <<lruCache, recency>>
clientVars == <<apiClient, fetches, NODE_ENV>>
trieVars == <<trie, indexed>>
searchVars == <<searchArgs>>
libVars == <<lruVars, clientVars, trieVars, searchVars>>

(* ------------------------------ bounds --------------------------------- *)

\* number of tasks in a task list; ids are 1..MaxTasks
MaxTasks == 3
\* total number of dependency entries in a task list handed to the graph helpers
MaxEdges == 3
\* total number of dependency entries in a task list handed to the CPM passes
MaxCPMEdges == 2
\* largest estimatedDays of a generated task
MaxDays == 1
MaxRenderTasks == 2
MaxKeys == 3
MaxCapacity == 2

Ids == 1..MaxTasks
Days == 0..MaxDays

(* --------------------------- JavaScript values -------------------------- *)

\* null of a `number | null` state; ids are positive, and the code tests
\* these states with `!x`, which cannot tell null from 0
Null == 0

Infinity == 1000000

\* a JavaScript Map: keys in insertion order, and the value of each key
MapEmpty == [keys |-> <<>>, val |-> <<>>]

MapHas(m, k) == k \in DOMAIN m.val

MapGet(m, k, undefined) == IF MapHas(m, k) THEN m.val[k] ELSE undefined

MapSet(m, k, v) ==
    IF MapHas(m, k)
    THEN [m EXCEPT !.val[k] = v]
    ELSE [keys |-> Append(m.keys, k), val |-> m.val @@ (k :> v)]

\* Array.prototype.includes
Includes(arr, x) == \E i \in 1..Len(arr) : arr[i] = x

\* Array.prototype.findIndex, 0 for -1
RECURSIVE FindIndexFrom(_, _, _)
FindIndexFrom(arr, id, i) ==
    IF i > Len(arr) THEN 0
    ELSE IF arr[i].id = id THEN i
    ELSE FindIndexFrom(arr, id, i + 1)

FindIndex(arr, id) == FindIndexFrom(arr, id, 1)

\* dependencies.filter(id => id !== x)
RECURSIVE FilterOut(_, _)
FilterOut(arr, x) ==
    IF arr = <<>> THEN <<>>
    ELSE IF Head(arr) = x THEN FilterOut(Tail(arr), x)
    ELSE <<Head(arr)>> \o FilterOut(Tail(arr), x)

(* ------------------------------ detectCycle ----------------------------- *)

\* projects.forEach(project => graph.set(project.id, [...project.dependencies]))
RECURSIVE BuildGraph(_, _, _)
BuildGraph(ps, i, graph) ==
    IF i > Len(ps) THEN graph
    ELSE BuildGraph(ps, i + 1, MapSet(graph, ps[i].id, ps[i].dependencies))

\* the adjacency list with the candidate edge pushed onto fromId's copy
CandidateGraph(ps, fromId, toId) ==
    LET graph == BuildGraph(ps, 1, MapEmpty)
        g2 == IF MapHas(graph, fromId) THEN graph ELSE MapSet(graph, fromId, <<>>)
    IN MapSet(g2, fromId, Append(g2.val[fromId], toId))

RECURSIVE hasCycleDFS(_, _, _, _)
RECURSIVE VisitNeighbors(_, _, _, _, _)

\* returns the boolean and the two sets as the call leaves them
hasCycleDFS(graph, nodeId, visited, recursionStack) ==
    IF nodeId \in recursionStack
    THEN [found |-> TRUE, visited |-> visited, recursionStack |-> recursionStack]
    ELSE IF nodeId \in visited
    THEN [found |-> FALSE, visited |-> visited, recursionStack |-> recursionStack]
    ELSE LET r == VisitNeighbors(graph, MapGet(graph, nodeId, <<>>), 1,
                                 visited \cup {nodeId}, recursionStack \cup {nodeId})
         IN IF r.found THEN r
            ELSE [r EXCEPT !.recursionStack = @ \ {nodeId}]

\* the neighbor loop returning what the first neighbor answers
VisitNeighbors_FirstOnly(graph, neighbors, i, visited, recursionStack) ==
    IF i > Len(neighbors)
    THEN [found |-> FALSE, visited |-> visited, recursionStack |-> recursionStack]
    ELSE hasCycleDFS(graph, neighbors[i], visited, recursionStack)

VisitNeighbors(graph, neighbors, i, visited, recursionStack) ==
    IF i > Len(neighbors)
    THEN [found |-> FALSE, visited |-> visited, recursionStack |-> recursionStack]
    ELSE LET r == hasCycleDFS(graph, neighbors[i], visited, recursionStack)
         IN IF r.found THEN r
            ELSE VisitNeighbors(graph, neighbors, i + 1, r.visited, r.recursionStack)

\* detectCycle with the candidate edge left out of the adjacency list
detectCycle_NoCandidateEdge(ps, fromId, toId) ==
    hasCycleDFS(BuildGraph(ps, 1, MapEmpty), toId, {}, {}).found

detectCycle(ps, fromId, toId) ==
    hasCycleDFS(CandidateGraph(ps, fromId, toId), toId, {}, {}).found

(* ---------------------------- topologicalSort --------------------------- *)

\* projects.forEach(project => indegree.set(project.id, 0))
RECURSIVE InitIndegree(_, _, _)
InitIndegree(ps, i, indegree) ==
    IF i > Len(ps) THEN indegree
    ELSE InitIndegree(ps, i + 1, MapSet(indegree, ps[i].id, 0))

\* deps.forEach(depId => indegree.set(depId, (indegree.get(depId) || 0) + 1))
RECURSIVE CountDeps(_, _, _)
CountDeps(deps, j, indegree) ==
    IF j > Len(deps) THEN indegree
    ELSE CountDeps(deps, j + 1,
                   MapSet(indegree, deps[j], MapGet(indegree, deps[j], 0) + 1))

RECURSIVE CountIndegree(_, _, _)
CountIndegree(ps, i, indegree) ==
    IF i > Len(ps) THEN indegree
    ELSE CountIndegree(ps, i + 1, CountDeps(ps[i].dependencies, 1, indegree))

\* indegree.forEach((degree, nodeId) => { if (degree === 0) queue.push(nodeId) })
RECURSIVE ZeroIndegree(_, _)
ZeroIndegree(indegree, k) ==
    IF k > Len(indegree.keys) THEN <<>>
    ELSE (IF indegree.val[indegree.keys[k]] = 0 THEN <<indegree.keys[k]>> ELSE <<>>)
         \o ZeroIndegree(indegree, k + 1)

\* (indegree.get(id) || 1) - 1: undefined and 0 both count as 1
DecrementedIndegree(indegree, id) ==
    LET cur == MapGet(indegree, id, 0)
    IN (IF cur = 0 THEN 1 ELSE cur) - 1

\* successors.forEach: lower the indegree, enqueue the ones that reach 0
RECURSIVE ReleaseSuccessors(_, _, _, _)
ReleaseSuccessors(successors, j, indegree, queue) ==
    IF j > Len(successors) THEN [indegree |-> indegree, queue |-> queue]
    ELSE LET newIndegree == DecrementedIndegree(indegree, successors[j])
         IN ReleaseSuccessors(successors, j + 1,
                MapSet(indegree, successors[j], newIndegree),
                IF newIndegree = 0 THEN Append(queue, successors[j]) ELSE queue)

\* while (queue.length > 0) { shift, push to sorted, release the successors }
RECURSIVE KahnLoop(_, _, _, _)
KahnLoop(graph, indegree, queue, sorted) ==
    IF queue = <<>> THEN sorted
    ELSE LET nodeId == Head(queue)
             r == ReleaseSuccessors(MapGet(graph, nodeId, <<>>), 1, indegree, Tail(queue))
         IN KahnLoop(graph, r.indegree, r.queue, Append(sorted, nodeId))

\* topologicalSort answering null only when nothing at all was sorted
topologicalSort_EmptyCheck(ps) ==
    LET graph == BuildGraph(ps, 1, MapEmpty)
        indegree == CountIndegree(ps, 1, InitIndegree(ps, 1, MapEmpty))
        sorted == KahnLoop(graph, indegree, ZeroIndegree(indegree, 1), <<>>)
    IN IF Len(sorted) = 0 /\ Len(ps) # 0
       THEN [isNull |-> TRUE, order |-> <<>>]
       ELSE [isNull |-> FALSE, order |-> sorted]

\* number[] | null as a record: isNull, and the order when it is not null
topologicalSort(ps) ==
    LET graph == BuildGraph(ps, 1, MapEmpty)
        indegree == CountIndegree(ps, 1, InitIndegree(ps, 1, MapEmpty))
        sorted == KahnLoop(graph, indegree, ZeroIndegree(indegree, 1), <<>>)
    IN IF Len(sorted) # Len(ps)
       THEN [isNull |-> TRUE, order |-> <<>>]
       ELSE [isNull |-> FALSE, order |-> sorted]

(* ------------------------- calculateEarliestTimes ----------------------- *)

\* projectMap.get(id): the last project of the list with that id, 0 for undefined
RECURSIVE ProjectIndexFrom(_, _, _, _)
ProjectIndexFrom(ps, id, i, found) ==
    IF i > Len(ps) THEN found
    ELSE ProjectIndexFrom(ps, id, i + 1, IF ps[i].id = id THEN i ELSE found)

ProjectIndex(ps, id) == ProjectIndexFrom(ps, id, 1, 0)

\* the loop without the comparison: the last dependency's EF wins
RECURSIVE MaxDepEf_LastWins(_, _, _, _)
MaxDepEf_LastWins(deps, j, times, maxEf) ==
    IF j > Len(deps) THEN maxEf
    ELSE MaxDepEf_LastWins(deps, j + 1, times,
            IF MapHas(times, deps[j]) THEN times.val[deps[j]].ef ELSE maxEf)

\* let maxEf = 0; for (depId of dependencies) if (depTimes && depTimes.ef > maxEf) ...
RECURSIVE MaxDepEf(_, _, _, _)
MaxDepEf(deps, j, times, maxEf) ==
    IF j > Len(deps) THEN maxEf
    ELSE MaxDepEf(deps, j + 1, times,
            IF MapHas(times, deps[j]) /\ times.val[deps[j]].ef > maxEf
            THEN times.val[deps[j]].ef ELSE maxEf)

EarliestRecord(project, times) ==
    LET es == IF Len(project.dependencies) = 0 THEN 0
              ELSE MaxDepEf(project.dependencies, 1, times, 0)
    IN [es |-> es, ef |-> es + project.estimatedDays,
        ls |-> 0, lf |-> 0, slack |-> 0, isCritical |-> FALSE]

\* for (const projectId of topoOrder): threw when projectMap has no such id
RECURSIVE ForwardPass(_, _, _, _)
ForwardPass(ps, topoOrder, i, times) ==
    IF i > Len(topoOrder) THEN [threw |-> FALSE, times |-> times]
    ELSE LET idx == ProjectIndex(ps, topoOrder[i])
         IN IF idx = 0 THEN [threw |-> TRUE, times |-> times]
            ELSE ForwardPass(ps, topoOrder, i + 1,
                    MapSet(times, topoOrder[i], EarliestRecord(ps[idx], times)))

calculateEarliestTimes(ps, topoOrder) == ForwardPass(ps, topoOrder, 1, MapEmpty)

(* -------------------------- calculateLatestTimes ------------------------ *)

\* projects.forEach(p => reverseGraph.set(p.id, []))
RECURSIVE InitReverseGraph(_, _, _)
InitReverseGraph(ps, i, reverseGraph) ==
    IF i > Len(ps) THEN reverseGraph
    ELSE InitReverseGraph(ps, i + 1, MapSet(reverseGraph, ps[i].id, <<>>))

\* p.dependencies.forEach(depId => reverseGraph.get(depId).push(p.id))
RECURSIVE PushSuccessor(_, _, _, _)
PushSuccessor(deps, j, id, reverseGraph) ==
    IF j > Len(deps) THEN reverseGraph
    ELSE PushSuccessor(deps, j + 1, id,
            MapSet(reverseGraph, deps[j], Append(MapGet(reverseGraph, deps[j], <<>>), id)))

RECURSIVE BuildReverseGraph(_, _, _)
BuildReverseGraph(ps, i, reverseGraph) ==
    IF i > Len(ps) THEN reverseGraph
    ELSE BuildReverseGraph(ps, i + 1,
            PushSuccessor(ps[i].dependencies, 1, ps[i].id, reverseGraph))

\* let maxEf = 0; times.forEach(time => { if (time.ef > maxEf) maxEf = time.ef })
RECURSIVE MaxEf(_, _, _)
MaxEf(times, k, maxEf) ==
    IF k > Len(times.keys) THEN maxEf
    ELSE MaxEf(times, k + 1,
            IF times.val[times.keys[k]].ef > maxEf THEN times.val[times.keys[k]].ef ELSE maxEf)

\* the loop without the comparison: the last successor's LS wins
RECURSIVE MinSuccLs_LastWins(_, _, _, _)
MinSuccLs_LastWins(successors, j, times, minLs) ==
    IF j > Len(successors) THEN minLs
    ELSE MinSuccLs_LastWins(successors, j + 1, times,
            IF MapHas(times, successors[j]) THEN times.val[successors[j]].ls ELSE minLs)

\* let minLs = Infinity; for (succId of successors) if (succTime && succTime.ls < minLs) ...
RECURSIVE MinSuccLs(_, _, _, _)
MinSuccLs(successors, j, times, minLs) ==
    IF j > Len(successors) THEN minLs
    ELSE MinSuccLs(successors, j + 1, times,
            IF MapHas(times, successors[j]) /\ times.val[successors[j]].ls < minLs
            THEN times.val[successors[j]].ls ELSE minLs)

\* the record of a task nothing depends on closed at its own EF, not at maxEf
LatestRecord_OwnEf(project, currentTime, successors, times, maxEf) ==
    LET lf == IF Len(successors) = 0 THEN currentTime.ef
              ELSE MinSuccLs(successors, 1, times, Infinity)
        ls == lf - project.estimatedDays
    IN [currentTime EXCEPT !.lf = lf, !.ls = ls,
                           !.slack = ls - currentTime.es,
                           !.isCritical = (ls - currentTime.es = 0)]

LatestRecord(project, currentTime, successors, times, maxEf) ==
    LET lf == IF Len(successors) = 0 THEN maxEf
              ELSE MinSuccLs(successors, 1, times, Infinity)
        ls == lf - project.estimatedDays
    IN [currentTime EXCEPT !.lf = lf, !.ls = ls,
                           !.slack = ls - currentTime.es,
                           !.isCritical = (ls - currentTime.es = 0)]

\* for (let i = topoOrder.length - 1; i >= 0; i--)
RECURSIVE BackwardPass(_, _, _, _, _, _)
BackwardPass(ps, topoOrder, i, reverseGraph, maxEf, times) ==
    IF i < 1 THEN [threw |-> FALSE, times |-> times]
    ELSE LET projectId == topoOrder[i]
             idx == ProjectIndex(ps, projectId)
         IN IF idx = 0 \/ ~MapHas(times, projectId)
            THEN [threw |-> TRUE, times |-> times]
            ELSE BackwardPass(ps, topoOrder, i - 1, reverseGraph, maxEf,
                    MapSet(times, projectId,
                           LatestRecord(ps[idx], times.val[projectId],
                                        MapGet(reverseGraph, projectId, <<>>),
                                        times, maxEf)))

calculateLatestTimes(ps, topoOrder, earliestTimes) ==
    BackwardPass(ps, topoOrder, Len(topoOrder),
                 BuildReverseGraph(ps, 1, InitReverseGraph(ps, 1, MapEmpty)),
                 MaxEf(earliestTimes, 1, 0), earliestTimes)

(* ---------------- findCriticalPath, calculateTotalDuration -------------- *)

\* Array.from(times.entries()).filter(([_, time]) => time.isCritical).map(([id]) => id)
RECURSIVE CriticalProjects(_, _)
CriticalProjects(times, k) ==
    IF k > Len(times.keys) THEN <<>>
    ELSE (IF times.val[times.keys[k]].isCritical THEN <<times.keys[k]>> ELSE <<>>)
         \o CriticalProjects(times, k + 1)

\* project.dependencies.filter(depId => criticalProjects.includes(depId))
RECURSIVE CriticalDeps(_, _)
CriticalDeps(deps, criticalProjects) ==
    IF deps = <<>> THEN <<>>
    ELSE (IF Includes(criticalProjects, Head(deps)) THEN <<Head(deps)>> ELSE <<>>)
         \o CriticalDeps(Tail(deps), criticalProjects)

RECURSIVE BuildCriticalGraph(_, _, _, _)
BuildCriticalGraph(ps, criticalProjects, k, criticalGraph) ==
    IF k > Len(criticalProjects) THEN criticalGraph
    ELSE BuildCriticalGraph(ps, criticalProjects, k + 1,
            MapSet(criticalGraph, criticalProjects[k],
                   CriticalDeps(ps[ProjectIndex(ps, criticalProjects[k])].dependencies,
                                criticalProjects)))

\* criticalProjects.forEach(id => indegree.set(id, 0))
RECURSIVE InitCriticalIndegree(_, _, _)
InitCriticalIndegree(criticalProjects, k, indegree) ==
    IF k > Len(criticalProjects) THEN indegree
    ELSE InitCriticalIndegree(criticalProjects, k + 1,
            MapSet(indegree, criticalProjects[k], 0))

\* criticalGraph.forEach((deps, nodeId) => deps.forEach(depId => indegree.set(...)))
RECURSIVE CountCriticalIndegree(_, _, _)
CountCriticalIndegree(criticalGraph, k, indegree) ==
    IF k > Len(criticalGraph.keys) THEN indegree
    ELSE CountCriticalIndegree(criticalGraph, k + 1,
            CountDeps(criticalGraph.val[criticalGraph.keys[k]], 1, indegree))

\* findCriticalPath without its loop: the critical tasks no critical task depends on
findCriticalPath_QueueOnly(ps, times) ==
    LET criticalProjects == CriticalProjects(times, 1)
        criticalGraph == BuildCriticalGraph(ps, criticalProjects, 1, MapEmpty)
        indegree == CountCriticalIndegree(criticalGraph, 1,
                        InitCriticalIndegree(criticalProjects, 1, MapEmpty))
    IN ZeroIndegree(indegree, 1)

findCriticalPath(ps, times) ==
    LET criticalProjects == CriticalProjects(times, 1)
        criticalGraph == BuildCriticalGraph(ps, criticalProjects, 1, MapEmpty)
        indegree == CountCriticalIndegree(criticalGraph, 1,
                        InitCriticalIndegree(criticalProjects, 1, MapEmpty))
    IN KahnLoop(criticalGraph, indegree, ZeroIndegree(indegree, 1), <<>>)

calculateTotalDuration(times) == MaxEf(times, 1, 0)

(* ------------------- one render of DependencyGraph ---------------------- *)

\* sortedProjects, hasCycle, times, criticalPath and totalDuration of a render
Recomputation(ps) ==
    LET sortedProjects == topologicalSort(ps)
    IN IF sortedProjects.isNull
       THEN [hasCycle |-> TRUE, threw |-> FALSE, sortedProjects |-> <<>>,
             times |-> MapEmpty, criticalPath |-> <<>>, totalDuration |-> 0]
       ELSE LET earliestTimes == calculateEarliestTimes(ps, sortedProjects.order)
                latest == IF earliestTimes.threw THEN earliestTimes
                          ELSE calculateLatestTimes(ps, sortedProjects.order,
                                                    earliestTimes.times)
            IN IF latest.threw
               THEN [hasCycle |-> FALSE, threw |-> TRUE,
                     sortedProjects |-> sortedProjects.order,
                     times |-> MapEmpty, criticalPath |-> <<>>, totalDuration |-> 0]
               ELSE [hasCycle |-> FALSE, threw |-> FALSE,
                     sortedProjects |-> sortedProjects.order,
                     times |-> latest.times,
                     criticalPath |-> findCriticalPath(ps, latest.times),
                     totalDuration |-> calculateTotalDuration(latest.times)]

(* ---------------------- what a render leaves shown ---------------------- *)

\* useMemo(factory, deps): the factory runs when a dependency is not the value
\* of the last render, else the value of the last render is kept
UseMemo(changed, value, last) == IF changed THEN value ELSE last

\* the factory of times: null without an order, else the two passes on it
TimesOf(ps, sortedProjects) ==
    IF sortedProjects.isNull THEN [isNull |-> TRUE, threw |-> FALSE, times |-> MapEmpty]
    ELSE LET earliestTimes == calculateEarliestTimes(ps, sortedProjects.order)
             latest == IF earliestTimes.threw THEN earliestTimes
                       ELSE calculateLatestTimes(ps, sortedProjects.order,
                                                 earliestTimes.times)
         IN [isNull |-> FALSE, threw |-> latest.threw,
             times |-> IF latest.threw THEN MapEmpty ELSE latest.times]

\* no render yet: nothing a later render could take for unchanged
NoRender ==
    [projectsWithColors |-> <<>>, hasCycle |-> FALSE,
     sortedProjects |-> [isNull |-> FALSE, order |-> <<>>],
     times |-> [isNull |-> FALSE, threw |-> FALSE, times |-> MapEmpty],
     criticalPath |-> <<>>, totalDuration |-> 0]

\* the render whose criticalPath memo has no dependencies: the first value is kept
Render_CriticalPathOnce(last, ps, projectsChanged) ==
    LET projectsWithColors == UseMemo(projectsChanged, ps, last.projectsWithColors)
        sortedProjects == topologicalSort(projectsWithColors)
        sortedChanged == ~(sortedProjects.isNull /\ last.sortedProjects.isNull)
        timesRun == projectsChanged \/ sortedChanged
        times == UseMemo(timesRun, TimesOf(projectsWithColors, sortedProjects), last.times)
        timesChanged == timesRun /\ ~(times.isNull /\ last.times.isNull)
    IN [projectsWithColors |-> projectsWithColors,
        hasCycle |-> sortedProjects.isNull,
        sortedProjects |-> sortedProjects,
        times |-> times,
        criticalPath |->
            UseMemo(last.projectsWithColors = <<>>,
                    IF times.isNull \/ times.threw THEN <<>>
                    ELSE findCriticalPath(projectsWithColors, times.times),
                    last.criticalPath),
        totalDuration |->
            UseMemo(timesChanged,
                    IF times.isNull \/ times.threw THEN 0
                    ELSE calculateTotalDuration(times.times),
                    last.totalDuration)]

\* one run of the component function after the render that left last: ps is the
\* projects prop and projectsChanged tells that it is another array than before.
\* sortedProjects is computed by every render, so it is another value each time
\* unless it is null twice; a Map the factory returns is another value as well.
Render(last, ps, projectsChanged) ==
    LET projectsWithColors == UseMemo(projectsChanged, ps, last.projectsWithColors)
        sortedProjects == topologicalSort(projectsWithColors)
        sortedChanged == ~(sortedProjects.isNull /\ last.sortedProjects.isNull)
        timesRun == projectsChanged \/ sortedChanged
        times == UseMemo(timesRun, TimesOf(projectsWithColors, sortedProjects), last.times)
        timesChanged == timesRun /\ ~(times.isNull /\ last.times.isNull)
    IN [projectsWithColors |-> projectsWithColors,
        hasCycle |-> sortedProjects.isNull,
        sortedProjects |-> sortedProjects,
        times |-> times,
        criticalPath |->
            UseMemo(projectsChanged \/ timesChanged,
                    IF times.isNull \/ times.threw THEN <<>>
                    ELSE findCriticalPath(projectsWithColors, times.times),
                    last.criticalPath),
        totalDuration |->
            UseMemo(timesChanged,
                    IF times.isNull \/ times.threw THEN 0
                    ELSE calculateTotalDuration(times.times),
                    last.totalDuration)]

(* --------------------- the Projects page's callbacks -------------------- *)

\* setDependencyProjects(prev => ...) of Projects.handleAddDependency
Projects_handleAddDependency(prev, fromId, toId) ==
    LET fromProjectIndex == FindIndex(prev, fromId)
    IN IF fromProjectIndex # 0 /\ ~Includes(prev[fromProjectIndex].dependencies, toId)
       THEN [prev EXCEPT ![fromProjectIndex].dependencies = Append(@, toId)]
       ELSE prev

\* the removal that drops the last entry of the list, whatever id was asked for
Projects_handleRemoveDependency_DropsLast(prev, projectId, dependencyId) ==
    LET projectIndex == FindIndex(prev, projectId)
    IN IF projectIndex # 0
       THEN [prev EXCEPT ![projectIndex].dependencies =
                            IF @ = <<>> THEN @ ELSE SubSeq(@, 1, Len(@) - 1)]
       ELSE prev

\* setDependencyProjects(prev => ...) of Projects.handleRemoveDependency
Projects_handleRemoveDependency(prev, projectId, dependencyId) ==
    LET projectIndex == FindIndex(prev, projectId)
    IN IF projectIndex # 0
       THEN [prev EXCEPT ![projectIndex].dependencies = FilterOut(@, dependencyId)]
       ELSE prev

\* localStorage.setItem(`project-deps-${id}`, JSON.stringify(dependencies)), when
\* the branch that writes is taken. The storage is kept as what its one reader,
\* convertToDependencyFormat, gets back: the list parsed, [] for a missing key.
SetItem(storage, ps, id, written) ==
    IF written THEN (id :> ps[FindIndex(ps, id)].dependencies) @@ storage ELSE storage

(* ------------------- the DependencyGraph component ---------------------- *)

NoError == "null"
ErrorSelectBoth == "Please select both projects"
ErrorSelf == "A project cannot depend on itself"
ErrorExists == "This dependency already exists"
ErrorCycle == "Cannot add dependency: would create a circular dependency!"

NoCall == [fn |-> "none"]

\* no LRUCache constructed
NoCache == [capacity |-> 0]

\* no CachedAPIClient constructed, no fetch under way
NoClient == [hitCount |-> 0, missCount |-> 0, errorCount |-> 0]

ClientUnused == apiClient = NoClient /\ fetches = <<>> /\ NODE_ENV = "test"

\* no AutocompleteService constructed
NoTrie == <<>>

TrieUnused == trie = NoTrie /\ indexed = {}

\* no fuzzySearch call
NoSearch == [query |-> ""]

SearchUnused == searchArgs = NoSearch

\* the estimate of a project without tasks whose priority matches no case
DefaultEstimatedDays == 14

\* convertToDependencyFormat with nothing stored: every dependency list is []
InitUI ==
    /\ projects = [i \in Ids |->
                     [id |-> i, dependencies |-> <<>>, estimatedDays |-> DefaultEstimatedDays]]
    /\ localStorage = [i \in Ids |-> <<>>]
    /\ selectedFrom = Null
    /\ selectedTo = Null
    /\ error = NoError
    /\ committed = FALSE
    /\ call = NoCall
    /\ rendered = NoRender
    /\ lruCache = NoCache
    /\ recency = <<>>
    /\ ClientUnused
    /\ TrieUnused
    /\ SearchUnused

\* the render a state change of the component or a new projects prop brings, in
\* the behaviours that follow what is shown from the first render on
Rerender(ps, projectsChanged) ==
    rendered' = IF rendered = NoRender THEN NoRender
                ELSE Render(rendered, ps, projectsChanged)

ProjectIds(ps) == {ps[i].id : i \in 1..Len(ps)}

\* onValueChange of the "Project that depends on..." select
SelectFrom(v) ==
    /\ v \in ProjectIds(projects)
    /\ selectedFrom' = v
    /\ error' = NoError
    /\ Rerender(projects, FALSE)
    /\ UNCHANGED <<projects, localStorage, selectedTo, committed, call, libVars>>

\* onValueChange of the "Is blocked by..." select, which leaves selectedFrom out
SelectTo(v) ==
    /\ v \in ProjectIds(projects) \ {selectedFrom}
    /\ selectedTo' = v
    /\ error' = NoError
    /\ Rerender(projects, FALSE)
    /\ UNCHANGED <<projects, localStorage, selectedFrom, committed, call, libVars>>

\* the edge already listed: fromProject?.dependencies.includes(selectedTo)
DependencyExists(ps, fromId, toId) ==
    LET i == FindIndex(ps, fromId)
    IN i # 0 /\ Includes(ps[i].dependencies, toId)

\* the checks with detectCycle handed its two ids in the wrong order
AddDependencyError_SwappedIds(ps, fromId, toId) ==
    IF fromId = Null \/ toId = Null THEN ErrorSelectBoth
    ELSE IF fromId = toId THEN ErrorSelf
    ELSE IF DependencyExists(ps, fromId, toId) THEN ErrorExists
    ELSE IF detectCycle(ps, toId, fromId) THEN ErrorCycle
    ELSE NoError

\* the checks without the one for a project depending on itself
AddDependencyError_NoSelfCheck(ps, fromId, toId) ==
    IF fromId = Null \/ toId = Null THEN ErrorSelectBoth
    ELSE IF DependencyExists(ps, fromId, toId) THEN ErrorExists
    ELSE IF detectCycle(ps, fromId, toId) THEN ErrorCycle
    ELSE NoError

\* what the click answers: the message set, or NoError when it goes on to commit
AddDependencyError(ps, fromId, toId) ==
    IF fromId = Null \/ toId = Null THEN ErrorSelectBoth
    ELSE IF fromId = toId THEN ErrorSelf
    ELSE IF DependencyExists(ps, fromId, toId) THEN ErrorExists
    ELSE IF detectCycle(ps, fromId, toId) THEN ErrorCycle
    ELSE NoError

\* a click on Add Dependency; the button is disabled until both are selected
handleAddDependency ==
    /\ selectedFrom # Null /\ selectedTo # Null
    /\ LET e == AddDependencyError(projects, selectedFrom, selectedTo)
           newProjects == Projects_handleAddDependency(projects, selectedFrom, selectedTo)
       IN /\ error' = e
          /\ committed' = (e = NoError)
          /\ IF e = NoError
             THEN /\ projects' = newProjects
                  /\ localStorage' = SetItem(localStorage, newProjects, selectedFrom,
                                             newProjects # projects)
                  /\ selectedFrom' = Null
                  /\ selectedTo' = Null
                  /\ Rerender(newProjects, TRUE)
             ELSE /\ Rerender(projects, FALSE)
                  /\ UNCHANGED <<projects, localStorage, selectedFrom, selectedTo>>
    /\ UNCHANGED <<call, libVars>>

\* handleRemoveDependency(projectId, dependencyId), handed on to onDependencyRemove;
\* the x buttons call it for listed dependencies, the ids here are any two ids
handleRemoveDependency(projectId, dependencyId) ==
    LET newProjects == Projects_handleRemoveDependency(projects, projectId, dependencyId)
    IN /\ projects' = newProjects
       /\ localStorage' = SetItem(localStorage, newProjects, projectId,
                                  FindIndex(projects, projectId) # 0)
       /\ Rerender(newProjects, TRUE)
       /\ UNCHANGED <<selectedFrom, selectedTo, error, committed, call, libVars>>

\* an id that no project of the list has
UnknownId == MaxTasks + 1

Next ==
    \/ \E v \in Ids : SelectFrom(v)
    \/ \E v \in Ids : SelectTo(v)
    \/ handleAddDependency
    \/ \E projectId \in Ids \cup {UnknownId}, dependencyId \in Ids :
          handleRemoveDependency(projectId, dependencyId)

Spec == InitUI /\ [][Next]_vars

(* ------------------ the clicks with what is shown ---------------------- *)

\* the estimate of a High priority project without tasks
HighEstimatedDays == 7

\* the component mounted on projects with nothing stored, its first render done
InitRender ==
    /\ \E days \in [1..MaxRenderTasks -> {HighEstimatedDays, DefaultEstimatedDays}] :
          projects = [i \in 1..MaxRenderTasks |->
                        [id |-> i, dependencies |-> <<>>, estimatedDays |-> days[i]]]
    /\ localStorage = [i \in Ids |-> <<>>]
    /\ selectedFrom = Null
    /\ selectedTo = Null
    /\ error = NoError
    /\ committed = FALSE
    /\ call = NoCall
    /\ rendered = Render(NoRender, projects, TRUE)
    /\ lruCache = NoCache
    /\ recency = <<>>
    /\ ClientUnused
    /\ TrieUnused
    /\ SearchUnused

SpecRender == InitRender /\ [][Next]_vars

(* ------------------ the project list fetched again ---------------------- *)

\* the answer of GET /projects that holds the projects of S, by ascending id
RECURSIVE FetchedProjects(_, _)
FetchedProjects(S, k) ==
    IF k > MaxTasks THEN <<>>
    ELSE (IF k \in S THEN <<k>> ELSE <<>>) \o FetchedProjects(S, k + 1)

\* projects.map(project => ({id, dependencies: stored ? JSON.parse(stored) : [], estimatedDays}))
convertToDependencyFormat(allProjects, storage) ==
    [k \in 1..Len(allProjects) |->
        [id |-> allProjects[k], dependencies |-> storage[allProjects[k]],
         estimatedDays |-> DefaultEstimatedDays]]

\* useEffect on [allProjects]: the query answers with another list (a filter set,
\* a project deleted or created elsewhere) and the page converts it; a mounted
\* DependencyGraph keeps its selection and its error. The answer is not empty,
\* as an empty list takes the component off the page.
UpdateDependencyProjects(S) ==
    /\ S # {}
    /\ projects' = convertToDependencyFormat(FetchedProjects(S, 1), localStorage)
    /\ Rerender(projects', TRUE)
    /\ UNCHANGED <<localStorage, selectedFrom, selectedTo, error, committed, call, libVars>>

NextReload ==
    \/ Next
    \/ \E S \in SUBSET Ids : UpdateDependencyProjects(S)

SpecReload == InitUI /\ [][NextReload]_vars

(* --------------------------- generated inputs --------------------------- *)

Range(seq) == {seq[i] : i \in 1..Len(seq)}

\* the duplicate-free lists of n task ids
RECURSIVE DepListsOfLen(_)
DepListsOfLen(n) ==
    IF n = 0 THEN {<<>>}
    ELSE UNION {{Append(l, t) : t \in Ids \ Range(l)} : l \in DepListsOfLen(n - 1)}

DepLists(budget) == UNION {DepListsOfLen(n) : n \in 0..budget}

\* the ways to give tasks 1..n dependency lists of at most budget entries in all
RECURSIVE Assignments(_, _)
Assignments(n, budget) ==
    IF n = 0 THEN {<<>>}
    ELSE UNION {{Append(a, l) : a \in Assignments(n - 1, budget - Len(l))} :
                l \in DepLists(budget)}

TaskList(deps, days) ==
    [i \in Ids |-> [id |-> i, dependencies |-> deps[i], estimatedDays |-> days[i]]]

DepsOf(ps, id) ==
    LET i == ProjectIndex(ps, id) IN IF i = 0 THEN {} ELSE Range(ps[i].dependencies)

\* the ids a task depends on, directly or through a chain
RECURSIVE ReachFrom(_, _)
ReachFrom(ps, frontier) ==
    LET next == frontier \cup UNION {DepsOf(ps, id) : id \in frontier}
    IN IF next = frontier THEN frontier ELSE ReachFrom(ps, next)

DependsOn(ps, a, b) == b \in ReachFrom(ps, DepsOf(ps, a))

Acyclic(ps) == \A id \in ProjectIds(ps) : ~DependsOn(ps, id, id)

AllDepsExist(ps) == \A i \in 1..Len(ps) : Range(ps[i].dependencies) \subseteq ProjectIds(ps)

\* the task list of the CPM test of dataStructures.test.ts
ScenarioA ==
    <<[id |-> 1, dependencies |-> <<>>, estimatedDays |-> 3],
      [id |-> 2, dependencies |-> <<1>>, estimatedDays |-> 2],
      [id |-> 3, dependencies |-> <<1>>, estimatedDays |-> 4]>>

\* task lists whose dependency lists may hold cycles and self-dependencies
GraphInputs ==
    {TaskList(deps, [i \in Ids |-> DefaultEstimatedDays]) : deps \in Assignments(MaxTasks, MaxEdges)}

\* the dependency lists of the acyclic task lists
AcyclicAssignments ==
    {deps \in Assignments(MaxTasks, MaxCPMEdges) : Acyclic(TaskList(deps, [i \in Ids |-> 0]))}

\* acyclic task lists with every estimate in Days, and the test's task list
CPMInput(ps) ==
    \/ \E deps \in AcyclicAssignments, days \in [Ids -> Days] : ps = TaskList(deps, days)
    \/ ps = ScenarioA

\* a component that was handed the task list and has not been touched
Untouched ==
    /\ localStorage = [i \in Ids |-> <<>>]
    /\ selectedFrom = Null
    /\ selectedTo = Null
    /\ error = NoError
    /\ committed = FALSE
    /\ call = NoCall
    /\ rendered = NoRender
    /\ lruCache = NoCache
    /\ recency = <<>>
    /\ ClientUnused
    /\ TrieUnused
    /\ SearchUnused

InitGraph == projects \in GraphInputs /\ Untouched

InitCPM == CPMInput(projects) /\ Untouched

uiVars == <<projects, localStorage, selectedFrom, selectedTo, error, committed, rendered>>

(* --------------- the graph helpers applied to a task list --------------- *)

CallDetectCycle(fromId, toId) ==
    /\ call = NoCall
    /\ call' = [fn |-> "detectCycle", projects |-> projects, fromId |-> fromId,
                toId |-> toId, result |-> detectCycle(projects, fromId, toId)]
    /\ UNCHANGED <<uiVars, libVars>>

CallTopologicalSort ==
    /\ call = NoCall
    /\ call' = [fn |-> "topologicalSort", projects |-> projects,
                result |-> topologicalSort(projects)]
    /\ UNCHANGED <<uiVars, libVars>>

NextGraph ==
    \/ call = NoCall /\ \E fromId \in Ids, toId \in Ids : CallDetectCycle(fromId, toId)
    \/ CallTopologicalSort

SpecGraph == InitGraph /\ [][NextGraph]_vars

(* ------- topologicalSort applied to a list with unknown dependency ids ------- *)

\* dependency lists that may also name UnknownId, the id of no task
RECURSIVE AnyDepListsOfLen(_)
AnyDepListsOfLen(n) ==
    IF n = 0 THEN {<<>>}
    ELSE UNION {{Append(l, t) : t \in (Ids \cup {UnknownId}) \ Range(l)} :
                l \in AnyDepListsOfLen(n - 1)}

RECURSIVE AnyAssignments(_, _)
AnyAssignments(n, budget) ==
    IF n = 0 THEN {<<>>}
    ELSE UNION {{Append(a, l) : a \in AnyAssignments(n - 1, budget - Len(l))} :
                l \in UNION {AnyDepListsOfLen(k) : k \in 0..budget}}

SortInputs ==
    {TaskList(deps, [i \in Ids |-> DefaultEstimatedDays]) : deps \in AnyAssignments(MaxTasks, MaxEdges)}

InitSort == projects \in SortInputs /\ Untouched

NextSort == CallTopologicalSort

SpecSort == InitSort /\ [][NextSort]_vars

(* ---------------- the CPM passes applied to a task list ----------------- *)

\* the sequences that hold every element of S once
RECURSIVE OrdersOf(_)
OrdersOf(S) ==
    IF S = {} THEN {<<>>}
    ELSE UNION {{<<x>> \o p : p \in OrdersOf(S \ {x})} : x \in S}

\* the orders of all the task ids
Orders(ps) == OrdersOf(ProjectIds(ps))

Position(order, id) == CHOOSE i \in 1..Len(order) : order[i] = id

\* each task's dependencies come before the task
DependenciesFirst(ps, order) ==
    \A i \in 1..Len(ps) : \A d \in Range(ps[i].dependencies) :
        /\ d \in Range(order)
        /\ Position(order, d) < Position(order, ps[i].id)

\* the two passes as the tests call them, on an order the caller hands in, and
\* findCriticalPath on the times they give
CallCalculateTimes(topoOrder) ==
    /\ call = NoCall
    /\ DependenciesFirst(projects, topoOrder)
    /\ LET earliest == calculateEarliestTimes(projects, topoOrder)
           latest == calculateLatestTimes(projects, topoOrder, earliest.times)
       IN call' = [fn |-> "calculateTimes", projects |-> projects, topoOrder |-> topoOrder,
                   earliest |-> earliest, latest |-> latest,
                   criticalPath |-> findCriticalPath(projects, latest.times)]
    /\ UNCHANGED <<uiVars, libVars>>

\* one render of the component: topologicalSort and the passes on its result
CallRecomputation ==
    /\ call = NoCall
    /\ call' = [fn |-> "recomputation", projects |-> projects,
                result |-> Recomputation(projects)]
    /\ UNCHANGED <<uiVars, libVars>>

NextCPM ==
    \/ call = NoCall /\ \E topoOrder \in Orders(projects) : CallCalculateTimes(topoOrder)
    \/ CallRecomputation

SpecCPM == InitCPM /\ [][NextCPM]_vars

(* ------------------------------ LRUCache -------------------------------- *)

LRUKeys == 1..MaxKeys
LRUValues == {"v1", "v2"}
Undefined == "undefined"

\* the dummy nodes this.head and this.tail; a node with a key is named by its key
HeadNode == MaxKeys + 1
TailNode == MaxKeys + 2

\* new LRUNode(key, value)
LRUNode(key, value) == [key |-> key, value |-> value, prev |-> Null, next |-> Null]

\* constructor(capacity), capacity > 0. cache is kept as the set of its keys, as
\* the node a key maps to is named by the key; node holds the nodes reachable
\* from the object.
LRUCache(capacity) ==
    [capacity |-> capacity, size |-> 0, cache |-> {},
     node |-> (HeadNode :> [LRUNode(Null, Null) EXCEPT !.next = TailNode])
              @@ (TailNode :> [LRUNode(Null, Null) EXCEPT !.prev = HeadNode])]

\* node.prev = head; node.next = head.next; head.next.prev = node; head.next = node
LRU_addNode(c, n) ==
    LET n1 == [c.node EXCEPT ![n].prev = HeadNode]
        n2 == [n1 EXCEPT ![n].next = n1[HeadNode].next]
        n3 == [n2 EXCEPT ![n2[HeadNode].next].prev = n]
    IN [c EXCEPT !.node = [n3 EXCEPT ![HeadNode].next = n]]

\* prevNode.next = nextNode; nextNode.prev = prevNode
LRU_removeNode(c, n) ==
    LET prevNode == c.node[n].prev
        nextNode == c.node[n].next
        n1 == [c.node EXCEPT ![prevNode].next = nextNode]
    IN [c EXCEPT !.node = [n1 EXCEPT ![nextNode].prev = prevNode]]

\* the move that leaves the node where it is
LRU_moveToHead_Stays(c, n) == c

LRU_moveToHead(c, n) == LRU_addNode(LRU_removeNode(c, n), n)

\* a node no longer reachable from the object
DropNode(c, n) == [c EXCEPT !.node = [x \in DOMAIN c.node \ {n} |-> c.node[x]]]

\* lruNode = tail.prev; _removeNode(lruNode); cache.delete(lruNode.key); size--
LRU_evictLRU(c) ==
    LET lruNode == c.node[TailNode].prev
        removed == LRU_removeNode(c, lruNode)
    IN [DropNode(removed, lruNode) EXCEPT !.cache = @ \ {removed.node[lruNode].key},
                                          !.size = @ - 1]

\* the get that leaves the node found where it is
LRU_get_NoMove(c, key) ==
    IF key \notin c.cache THEN [cache |-> c, result |-> Undefined]
    ELSE [cache |-> c, result |-> c.node[key].value]

\* get(key): the cache after the call and the value returned
LRU_get(c, key) ==
    IF key \notin c.cache THEN [cache |-> c, result |-> Undefined]
    ELSE [cache |-> LRU_moveToHead(c, key), result |-> c.node[key].value]

\* put(key, value): the cache after the call, and whether it went on to evict
LRU_put(c, key, value) ==
    IF key \in c.cache
    THEN [cache |-> LRU_moveToHead([c EXCEPT !.node[key].value = value], key),
          evicted |-> FALSE]
    ELSE LET created == [c EXCEPT !.node = (key :> LRUNode(key, value)) @@ @,
                                  !.cache = @ \cup {key}]
             added == [LRU_addNode(created, key) EXCEPT !.size = @ + 1]
         IN IF added.size > added.capacity
            THEN [cache |-> LRU_evictLRU(added), evicted |-> TRUE]
            ELSE [cache |-> added, evicted |-> FALSE]

\* the delete that forgets this.size--
LRU_delete_KeepsSize(c, key) ==
    IF key \notin c.cache THEN [cache |-> c, result |-> FALSE]
    ELSE [cache |-> [DropNode(LRU_removeNode(c, key), key) EXCEPT !.cache = @ \ {key}],
          result |-> TRUE]

\* delete(key): the cache after the call and the value returned
LRU_delete(c, key) ==
    IF key \notin c.cache THEN [cache |-> c, result |-> FALSE]
    ELSE [cache |-> [DropNode(LRU_removeNode(c, key), key)
                       EXCEPT !.cache = @ \ {key}, !.size = @ - 1],
          result |-> TRUE]

\* clear(): cache.clear(); size = 0; head.next = tail; tail.prev = head
LRU_clear(c) ==
    [c EXCEPT !.cache = {}, !.size = 0,
              !.node = (HeadNode :> [c.node[HeadNode] EXCEPT !.next = TailNode])
                       @@ (TailNode :> [c.node[TailNode] EXCEPT !.prev = HeadNode])]

LRU_getSize(c) == c.size

\* while (currentNode && currentNode !== this.tail) entries.push({key, value})
RECURSIVE EntriesFrom(_, _, _)
EntriesFrom(c, currentNode, entries) ==
    IF currentNode = Null \/ currentNode = TailNode THEN entries
    ELSE EntriesFrom(c, c.node[currentNode].next,
                     Append(entries, [key |-> c.node[currentNode].key,
                                      value |-> c.node[currentNode].value]))

LRU_getEntries(c) == EntriesFrom(c, c.node[HeadNode].next, <<>>)

\* the history after an access to key: key first, the others in their order
Touched(key) == <<key>> \o FilterOut(recency, key)

Put(key, value) ==
    /\ LET r == LRU_put(lruCache, key, value)
       IN /\ lruCache' = r.cache
          /\ call' = [fn |-> "put", key |-> key, value |-> value, evicted |-> r.evicted]
    /\ recency' = Touched(key)
    /\ UNCHANGED <<uiVars, clientVars, trieVars, searchVars>>

Get(key) ==
    /\ LET r == LRU_get(lruCache, key)
       IN /\ lruCache' = r.cache
          /\ call' = [fn |-> "get", key |-> key, result |-> r.result]
          /\ recency' = IF r.result = Undefined THEN recency ELSE Touched(key)
    /\ UNCHANGED <<uiVars, clientVars, trieVars, searchVars>>

Delete(key) ==
    /\ LET r == LRU_delete(lruCache, key)
       IN /\ lruCache' = r.cache
          /\ call' = [fn |-> "delete", key |-> key, result |-> r.result]
    /\ recency' = FilterOut(recency, key)
    /\ UNCHANGED <<uiVars, clientVars, trieVars, searchVars>>

Clear ==
    /\ lruCache' = LRU_clear(lruCache)
    /\ call' = [fn |-> "clear"]
    /\ recency' = <<>>
    /\ UNCHANGED <<uiVars, clientVars, trieVars, searchVars>>

InitLRU ==
    /\ projects = <<>>
    /\ localStorage = [i \in Ids |-> <<>>]
    /\ selectedFrom = Null
    /\ selectedTo = Null
    /\ error = NoError
    /\ committed = FALSE
    /\ call = NoCall
    /\ rendered = NoRender
    /\ \E capacity \in 1..MaxCapacity : lruCache = LRUCache(capacity)
    /\ recency = <<>>
    /\ ClientUnused
    /\ TrieUnused
    /\ SearchUnused

NextLRU ==
    \/ \E key \in LRUKeys, value \in LRUValues : Put(key, value)
    \/ \E key \in LRUKeys : Get(key)
    \/ \E key \in LRUKeys : Delete(key)
    \/ Clear

SpecLRU == InitLRU /\ [][NextLRU]_vars

(* ================= the cached API client (CachedAPIClient) ================= *)

MaxCalls == 3
MaxPending == 2

\* String.prototype.includes
StrIncludes(s, part) ==
    \E i \in 1..(Len(s) - Len(part) + 1) : SubSeq(s, i, i + Len(part) - 1) = part

\* the options argument: absent, or a RequestInit with a method
NoOptions == [given |-> FALSE, method |-> Undefined]
RequestOptions == [given |-> TRUE, method |-> "POST"]

\* JSON.stringify of a RequestInit that holds a method
JSONStringify(options) == "{\"method\":\"" \o options.method \o "\"}"

_generateCacheKey(url, options) ==
    LET optionsString == IF options.given THEN JSONStringify(options) ELSE ""
    IN url \o "::" \o optionsString

\* the requests callers make, as <<url, options>>
Requests ==
    << <<"/api/projects", NoOptions>>, <<"/api/test", NoOptions>>,
       <<"/api/test", RequestOptions>> >>

RequestIds == 1..Len(Requests)

\* the parsed body of a response
ResponseData == {"v1"}

\* the node of the cache's Map that a key string names: equal strings name one node
CacheKeyId(cacheKey) ==
    CHOOSE i \in 1..Len(Requests) :
        /\ _generateCacheKey(Requests[i][1], Requests[i][2]) = cacheKey
        /\ \A j \in 1..(i - 1) : _generateCacheKey(Requests[j][1], Requests[j][2]) # cacheKey

\* what fetch and the reading of its response come to
FetchOutcomes == {"ok", "network", "not JSON", "HTTP error"}

MockProjects == "mock projects"
EmptyArray == "[]"

_getMockData(url) == IF StrIncludes(url, "/api/projects") THEN MockProjects ELSE EmptyArray

CachedAPIClient == [hitCount |-> 0, missCount |-> 0, errorCount |-> 0]

\* fetchWithCache up to its await of fetch, counting a miss for a hit too
fetchWithCache_begin_MissAlways(client, cache, url, options) ==
    LET cacheKey == CacheKeyId(_generateCacheKey(url, options))
        cached == LRU_get(cache, cacheKey)
    IN IF cached.result # Undefined
       THEN [hit |-> TRUE, key |-> cacheKey, cache |-> cached.cache, value |-> cached.result,
             client |-> [client EXCEPT !.hitCount = @ + 1, !.missCount = @ + 1]]
       ELSE [hit |-> FALSE, key |-> cacheKey, cache |-> cached.cache, value |-> Undefined,
             client |-> [client EXCEPT !.missCount = @ + 1]]

\* fetchWithCache up to its await of fetch
fetchWithCache_begin(client, cache, url, options) ==
    LET cacheKey == CacheKeyId(_generateCacheKey(url, options))
        cached == LRU_get(cache, cacheKey)
    IN IF cached.result # Undefined
       THEN [hit |-> TRUE, key |-> cacheKey, cache |-> cached.cache, value |-> cached.result,
             client |-> [client EXCEPT !.hitCount = @ + 1]]
       ELSE [hit |-> FALSE, key |-> cacheKey, cache |-> cached.cache, value |-> Undefined,
             client |-> [client EXCEPT !.missCount = @ + 1]]

\* fetchWithCache from the settling of fetch on
fetchWithCache_end(client, cache, env, request, outcome, data) ==
    IF outcome = "ok"
    THEN [client |-> client, cache |-> LRU_put(cache, request.key, data).cache,
          settled |-> "resolved", value |-> data]
    ELSE [client |-> [client EXCEPT !.errorCount = @ + 1], cache |-> cache,
          settled |-> IF env = "development" THEN "resolved" ELSE "rejected",
          value |-> IF env = "development" THEN _getMockData(request.url) ELSE outcome]

FetchWithCache(id) ==
    /\ apiClient.hitCount + apiClient.missCount < MaxCalls
    /\ LET url == Requests[id][1]
           options == Requests[id][2]
           r == fetchWithCache_begin(apiClient, lruCache, url, options)
       IN /\ r.hit \/ Len(fetches) < MaxPending
          /\ apiClient' = r.client
          /\ lruCache' = r.cache
          /\ recency' = IF r.hit THEN Touched(r.key) ELSE recency
          /\ fetches' = IF r.hit THEN fetches ELSE Append(fetches, [url |-> url, key |-> r.key])
          /\ call' = [fn |-> "fetchWithCache", key |-> r.key, hit |-> r.hit, fetch |-> "none",
                      settled |-> IF r.hit THEN "resolved" ELSE "pending", value |-> r.value]
    /\ UNCHANGED <<uiVars, NODE_ENV, trieVars, searchVars>>

FetchSettles(i, outcome, data) ==
    /\ i \in 1..Len(fetches)
    /\ LET request == fetches[i]
           r == fetchWithCache_end(apiClient, lruCache, NODE_ENV, request, outcome, data)
       IN /\ apiClient' = r.client
          /\ lruCache' = r.cache
          /\ recency' = IF outcome = "ok" THEN Touched(request.key) ELSE recency
          /\ fetches' = [j \in 1..(Len(fetches) - 1) |-> IF j < i THEN fetches[j] ELSE fetches[j + 1]]
          /\ call' = [fn |-> "fetchWithCache", key |-> request.key, hit |-> FALSE, fetch |-> outcome,
                      settled |-> r.settled, value |-> r.value]
    /\ UNCHANGED <<uiVars, NODE_ENV, trieVars, searchVars>>

ClearCache ==
    /\ lruCache' = LRU_clear(lruCache)
    /\ apiClient' = [hitCount |-> 0, missCount |-> 0, errorCount |-> 0]
    /\ recency' = <<>>
    /\ call' = [fn |-> "clearCache"]
    /\ UNCHANGED <<uiVars, fetches, NODE_ENV, trieVars, searchVars>>

InitClient ==
    /\ projects = <<>>
    /\ localStorage = [i \in Ids |-> <<>>]
    /\ selectedFrom = Null
    /\ selectedTo = Null
    /\ error = NoError
    /\ committed = FALSE
    /\ call = NoCall
    /\ rendered = NoRender
    /\ \E capacity \in 1..MaxCapacity : lruCache = LRUCache(capacity)
    /\ recency = <<>>
    /\ apiClient = CachedAPIClient
    /\ fetches = <<>>
    /\ NODE_ENV \in {"development", "production"}
    /\ TrieUnused
    /\ SearchUnused

NextClient ==
    \/ \E id \in RequestIds : FetchWithCache(id)
    \/ \E i \in 1..MaxPending, outcome \in FetchOutcomes, data \in ResponseData :
           FetchSettles(i, outcome, data)
    \/ ClearCache

SpecClient == InitClient /\ [][NextClient]_vars

(* ================= the trie and the autocomplete service ================= *)

MaxWords == 3

UpperCaseLetters == "ABCDEFGHIJKLMNOPQRSTUVWXYZ"
LowerCaseLetters == "abcdefghijklmnopqrstuvwxyz"

\* String.prototype.toLowerCase of one character
LowerChar(char) ==
    IF \E i \in 1..Len(UpperCaseLetters) : SubSeq(UpperCaseLetters, i, i) = char
    THEN LET i == CHOOSE i \in 1..Len(UpperCaseLetters) : SubSeq(UpperCaseLetters, i, i) = char
         IN SubSeq(LowerCaseLetters, i, i)
    ELSE char
ToLowerCase(word) == [i \in 1..Len(word) |-> LowerChar(word[i])]

\* the items callers pass, as sequences of characters
Items ==
    { <<>>, <<"a">>, <<"b">>, <<"A">>, <<"a", "a">>, <<"a", "b">>, <<"A", "b">>,
      <<"b", "a">>, <<"a", "b", "a">> }

\* a node is named by the path that leads to it; children keeps the Map's insertion order
TrieNode == [children |-> <<>>, isEndOfWord |-> FALSE]

Trie == (<<>> :> TrieNode)

RECURSIVE InsertFrom(_, _, _)
InsertFrom(t, word, depth) ==
    LET path == SubSeq(word, 1, depth)
    IN IF depth = Len(word)
       THEN [t EXCEPT ![path].isEndOfWord = TRUE]
       ELSE LET char == word[depth + 1]
                withChild == IF Includes(t[path].children, char)
                             THEN t
                             ELSE [t EXCEPT ![path].children = Append(@, char)]
                                  @@ (Append(path, char) :> TrieNode)
            IN InsertFrom(withChild, word, depth + 1)

Trie_insert(t, word) == InsertFrom(t, ToLowerCase(word), 0)

\* whether following word from the node at depth leads to a node at each character
RECURSIVE WalkFrom(_, _, _)
WalkFrom(t, word, depth) ==
    IF depth = Len(word)
    THEN TRUE
    ELSE IF Includes(t[SubSeq(word, 1, depth)].children, word[depth + 1])
         THEN WalkFrom(t, word, depth + 1)
         ELSE FALSE

Trie_search(t, word) ==
    LET w == ToLowerCase(word)
    IN WalkFrom(t, w, 0) /\ t[w].isEndOfWord

RECURSIVE collectWords(_, _, _)
RECURSIVE CollectChildren(_, _, _, _)
\* the loop of collectWords over the children from the i-th on
CollectChildren(t, path, prefix, i) ==
    IF i > Len(t[path].children)
    THEN <<>>
    ELSE LET char == t[path].children[i]
         IN collectWords(t, Append(path, char), Append(prefix, char))
            \o CollectChildren(t, path, prefix, i + 1)

collectWords(t, path, prefix) ==
    (IF t[path].isEndOfWord THEN <<prefix>> ELSE <<>>) \o CollectChildren(t, path, prefix, 1)

Trie_startsWith(t, prefix) ==
    LET p == ToLowerCase(prefix)
    IN IF ~WalkFrom(t, p, 0) THEN <<>> ELSE collectWords(t, p, prefix)

\* children.delete(char) of the node at path: the child and all below it are let go
DeleteChild(t, path, char) ==
    LET child == Append(path, char)
        kept == {p \in DOMAIN t : ~(Len(p) >= Len(child) /\ SubSeq(p, 1, Len(child)) = child)}
    IN [p \in kept |-> IF p = path THEN [t[p] EXCEPT !.children = FilterOut(@, char)] ELSE t[p]]

\* _remove deleting a childless node even when it ends a word
RECURSIVE _remove_DropsEndOfWord(_, _, _)
_remove_DropsEndOfWord(t, word, depth) ==
    LET path == SubSeq(word, 1, depth)
    IN IF depth = Len(word)
       THEN IF ~t[path].isEndOfWord
            THEN [trie |-> t, result |-> FALSE]
            ELSE [trie |-> [t EXCEPT ![path].isEndOfWord = FALSE],
                  result |-> Len(t[path].children) = 0]
       ELSE LET char == word[depth + 1]
            IN IF ~Includes(t[path].children, char)
               THEN [trie |-> t, result |-> FALSE]
               ELSE LET below == _remove_DropsEndOfWord(t, word, depth + 1)
                    IN IF below.result
                       THEN LET deleted == DeleteChild(below.trie, path, char)
                            IN [trie |-> deleted, result |-> Len(deleted[path].children) = 0]
                       ELSE [trie |-> below.trie, result |-> FALSE]

\* _remove clearing the mark only, never deleting a node
RECURSIVE _remove_KeepsNodes(_, _, _)
_remove_KeepsNodes(t, word, depth) ==
    LET path == SubSeq(word, 1, depth)
    IN IF depth = Len(word)
       THEN IF ~t[path].isEndOfWord
            THEN [trie |-> t, result |-> FALSE]
            ELSE [trie |-> [t EXCEPT ![path].isEndOfWord = FALSE],
                  result |-> Len(t[path].children) = 0]
       ELSE LET char == word[depth + 1]
            IN IF ~Includes(t[path].children, char)
               THEN [trie |-> t, result |-> FALSE]
               ELSE [trie |-> _remove_KeepsNodes(t, word, depth + 1).trie, result |-> FALSE]

RECURSIVE _remove(_, _, _)
_remove(t, word, depth) ==
    LET path == SubSeq(word, 1, depth)
    IN IF depth = Len(word)
       THEN IF ~t[path].isEndOfWord
            THEN [trie |-> t, result |-> FALSE]
            ELSE [trie |-> [t EXCEPT ![path].isEndOfWord = FALSE],
                  result |-> Len(t[path].children) = 0]
       ELSE LET char == word[depth + 1]
            IN IF ~Includes(t[path].children, char)
               THEN [trie |-> t, result |-> FALSE]
               ELSE LET below == _remove(t, word, depth + 1)
                    IN IF below.result
                       THEN LET deleted == DeleteChild(below.trie, path, char)
                            IN [trie |-> deleted,
                                result |-> ~deleted[path].isEndOfWord
                                           /\ Len(deleted[path].children) = 0]
                       ELSE [trie |-> below.trie, result |-> FALSE]

Trie_remove(t, word) == _remove(t, ToLowerCase(word), 0)

\* AutocompleteService
hasItem(t, item) == Trie_search(t, item)

AddItem(item) ==
    /\ ToLowerCase(item) \in indexed \/ Cardinality(indexed) < MaxWords
    /\ trie' = Trie_insert(trie, item)
    /\ indexed' = indexed \cup {ToLowerCase(item)}
    /\ call' = [fn |-> "addItem", item |-> item]
    /\ UNCHANGED <<uiVars, lruVars, clientVars, searchVars>>

RemoveItem(item) ==
    /\ LET r == Trie_remove(trie, item)
       IN /\ trie' = r.trie
          /\ call' = [fn |-> "removeItem", item |-> item, result |-> r.result,
                      held |-> ToLowerCase(item) \in indexed]
    /\ indexed' = indexed \ {ToLowerCase(item)}
    /\ UNCHANGED <<uiVars, lruVars, clientVars, searchVars>>

InitTrie ==
    /\ projects = <<>>
    /\ localStorage = [i \in Ids |-> <<>>]
    /\ selectedFrom = Null
    /\ selectedTo = Null
    /\ error = NoError
    /\ committed = FALSE
    /\ call = NoCall
    /\ rendered = NoRender
    /\ lruCache = NoCache
    /\ recency = <<>>
    /\ ClientUnused
    /\ trie = Trie
    /\ indexed = {}
    /\ SearchUnused

NextTrie ==
    \/ \E item \in Items : AddItem(item)
    \/ \E item \in Items : RemoveItem(item)

SpecTrie == InitTrie /\ [][NextTrie]_vars

(* ======================= fuzzy search (lib/search.ts) ======================= *)

MaxItems == 2

CharAt(s, i) == SubSeq(s, i, i)

RECURSIVE StrToLowerCase(_)
StrToLowerCase(s) ==
    IF Len(s) = 0 THEN "" ELSE LowerChar(CharAt(s, 1)) \o StrToLowerCase(SubSeq(s, 2, Len(s)))

\* String.prototype.trim for strings whose white space is the space character
RECURSIVE StrTrim(_)
StrTrim(s) ==
    IF Len(s) = 0 THEN ""
    ELSE IF CharAt(s, 1) = " " THEN StrTrim(SubSeq(s, 2, Len(s)))
    ELSE IF CharAt(s, Len(s)) = " " THEN StrTrim(SubSeq(s, 1, Len(s) - 1))
    ELSE s

StrStartsWith(s, part) == Len(part) <= Len(s) /\ SubSeq(s, 1, Len(part)) = part

Min3(x, y, z) == IF x <= y /\ x <= z THEN x ELSE IF y <= z THEN y ELSE z

\* the inner loop of levenshteinDistance: currentRow, kept as the entries 0..i-1 built so far
RECURSIVE CurrentRow(_, _, _, _)
CurrentRow(previousRow, a, bChar, row) ==
    LET i == Len(row)
    IN IF i > Len(a)
       THEN row
       ELSE LET cost == IF CharAt(a, i) = bChar THEN 0 ELSE 1
            IN CurrentRow(previousRow, a, bChar,
                          Append(row, Min3(row[i] + 1, previousRow[i + 1] + 1, previousRow[i] + cost)))

\* the outer loop of levenshteinDistance from column j on
RECURSIVE LevenshteinRows(_, _, _, _)
LevenshteinRows(previousRow, a, b, j) ==
    IF j > Len(b)
    THEN previousRow[Len(a) + 1]
    ELSE LevenshteinRows(CurrentRow(previousRow, a, CharAt(b, j), <<j>>), a, b, j + 1)

levenshteinDistance(a, b) ==
    IF a = b THEN 0
    ELSE IF Len(a) = 0 THEN Len(b)
    ELSE IF Len(b) = 0 THEN Len(a)
    ELSE LevenshteinRows([i \in 1..(Len(a) + 1) |-> i - 1], a, b, 1)

normalizeString(str) == StrTrim(StrToLowerCase(str))

\* getMatchScore without the fuzzy rule
getMatchScore_NoFuzzy(fieldValue, query) ==
    IF fieldValue = query THEN 100
    ELSE IF StrStartsWith(fieldValue, query) THEN 75
    ELSE IF StrIncludes(fieldValue, query) THEN 50
    ELSE 0

getMatchScore(fieldValue, query) ==
    IF fieldValue = query THEN 100
    ELSE IF StrStartsWith(fieldValue, query) THEN 75
    ELSE IF StrIncludes(fieldValue, query) THEN 50
    ELSE IF levenshteinDistance(fieldValue, query) <= 1 THEN 25
    ELSE 0

\* the string and number fields of the items searched, in key order
ItemFields == <<"name", "description">>

NoField == "undefined"

\* the loop over searchFields for one item, from the k-th field on
RECURSIVE BestMatch(_, _, _, _, _)
BestMatch(item, normalizedQuery, searchFields, k, best) ==
    IF k > Len(searchFields) \/ best.score = 100
    THEN best
    ELSE LET field == searchFields[k]
             fieldValue == normalizeString(item[field])
             score == IF fieldValue = "" THEN 0 ELSE getMatchScore(fieldValue, normalizedQuery)
         IN BestMatch(item, normalizedQuery, searchFields, k + 1,
                      IF score > best.score
                      THEN [item |-> item, score |-> score, matchedField |-> field,
                            matchedValue |-> fieldValue]
                      ELSE best)

\* Array.prototype.indexOf, -1 when absent
IndexOf(arr, x) ==
    IF Includes(arr, x)
    THEN (CHOOSE i \in 1..Len(arr) : arr[i] = x /\ \A j \in 1..(i - 1) : arr[j] # x) - 1
    ELSE -1

\* the comparator of the final sort: negative when a goes first
CompareResults(a, b, fields) ==
    IF b.score # a.score THEN b.score - a.score
    ELSE IndexOf(fields, a.matchedField) - IndexOf(fields, b.matchedField)

\* Array.prototype.sort (stable): x goes after the entries that do not compare greater
RECURSIVE InsertResult(_, _, _)
InsertResult(sorted, x, fields) ==
    IF sorted = <<>> THEN <<x>>
    ELSE IF CompareResults(Head(sorted), x, fields) <= 0
         THEN <<Head(sorted)>> \o InsertResult(Tail(sorted), x, fields)
         ELSE <<x>> \o sorted

RECURSIVE SortResults(_, _)
SortResults(results, fields) ==
    IF results = <<>> THEN <<>>
    ELSE InsertResult(SortResults(SubSeq(results, 1, Len(results) - 1), fields),
                      results[Len(results)], fields)

\* fields = <<>> stands for an absent or empty fields argument: both search ItemFields
\* and both leave equal scores in the order of the items
fuzzySearch(items, query, fields) ==
    LET normalizedQuery == normalizeString(query)
        searchFields == IF Len(fields) = 0 THEN ItemFields ELSE fields
        noMatch == [item |-> <<>>, score |-> 0, matchedField |-> NoField, matchedValue |-> NoField]
        matches == [i \in 1..Len(items) |-> BestMatch(items[i], normalizedQuery, searchFields, 1, noMatch)]
        results == SelectSeq(matches, LAMBDA r : r.score > 0)
    IN IF Len(items) = 0 \/ Len(normalizedQuery) = 0
       THEN <<>>
       ELSE SortResults(results, fields)

SearchItemPool ==
    { [name |-> "Mobile App Redesign", description |-> "Cross-platform mobile app"],
      [name |-> "DashBoard", description |-> "Case Variation"],
      [name |-> "mobile", description |-> ""] }

SearchQueries == {"moble", "mobile", "DASHBOARD", "dashbord", " App ", "   "}

SearchFields == {<<>>, <<"name">>, <<"name", "description">>, <<"description", "name">>}

ItemLists(n) == UNION {[1..k -> SearchItemPool] : k \in 0..n}

CallFuzzySearch ==
    /\ searchArgs # NoSearch
    /\ call' = [fn |-> "fuzzySearch",
                results |-> fuzzySearch(searchArgs.items, searchArgs.query, searchArgs.fields)]
    /\ UNCHANGED <<uiVars, libVars>>

InitSearch ==
    /\ projects = <<>>
    /\ localStorage = [i \in Ids |-> <<>>]
    /\ selectedFrom = Null
    /\ selectedTo = Null
    /\ error = NoError
    /\ committed = FALSE
    /\ call = NoCall
    /\ rendered = NoRender
    /\ lruCache = NoCache
    /\ recency = <<>>
    /\ ClientUnused
    /\ TrieUnused
    /\ searchArgs \in [items : ItemLists(MaxItems), query : SearchQueries, fields : SearchFields]

NextSearch == CallFuzzySearch

SpecSearch == InitSearch /\ [][NextSearch]_vars

(* ======================= properties of the model ======================= *)

SetMax(S) == CHOOSE x \in S : \A y \in S : y <= x
SetMin(S) == CHOOSE x \in S : \A y \in S : x <= y

\* the task list with "fromId depends on toId" added
WithEdge(ps, fromId, toId) ==
    [i \in 1..Len(ps) |->
        IF ps[i].id = fromId
        THEN [ps[i] EXCEPT !.dependencies = Append(@, toId)]
        ELSE ps[i]]

\* the ids that list id among their dependencies
DependentsOf(ps, id) == {ps[i].id : i \in {j \in 1..Len(ps) : id \in Range(ps[j].dependencies)}}

DaysOf(ps, id) == ps[ProjectIndex(ps, id)].estimatedDays

\* every id of the list exactly once
IsOrderOfAll(ps, order) ==
    /\ Len(order) = Len(ps)
    /\ Range(order) = ProjectIds(ps)

(* C1: after any sequence of add-dependency requests (validated by the
   component with detectCycle, committed by the page) and remove-dependency
   requests, the dependency graph is acyclic and names existing tasks only. *)
C1_Acyclicity == Acyclic(projects) /\ AllDepsExist(projects)

\* an add was committed on top of another: some task depends on another through a chain
C1_Witness ==
    /\ committed
    /\ \E a \in Ids, b \in Ids : DependsOn(projects, a, b) /\ b \notin DepsOf(projects, a)

(* C2: a click on Add Dependency whose edge would close a cycle (the dependency
   already depends on the dependent) sets the circular-dependency error, does
   not call the commit callback and leaves every dependency list as it was. *)
C2_CycleRejected ==
    [][(handleAddDependency
          /\ selectedFrom # selectedTo
          /\ DependsOn(projects, selectedTo, selectedFrom))
       => (error' = ErrorCycle /\ ~committed' /\ projects' = projects
             /\ localStorage' = localStorage)]_vars

\* the state a rejected request leaves: the error shown, the selection still there
C2_Witness ==
    /\ error = ErrorCycle
    /\ ~committed
    /\ selectedFrom # Null /\ selectedTo # Null
    /\ DependsOn(projects, selectedTo, selectedFrom)

(* C3: on an acyclic graph and two distinct existing ids, detectCycle returns
   true exactly when the graph with "fromId depends on toId" added has a cycle,
   that is exactly when toId already depends on fromId, directly or through a
   chain; and the task list is what it was before the call. *)
C3_DetectCycle ==
    (call.fn = "detectCycle" /\ Acyclic(call.projects) /\ call.fromId # call.toId)
    => /\ call.result = DependsOn(call.projects, call.toId, call.fromId)
       /\ call.result = ~Acyclic(WithEdge(call.projects, call.fromId, call.toId))
       /\ projects = call.projects

\* a cycle found through a chain: toId reaches fromId, but not in one step
C3_Witness ==
    /\ call.fn = "detectCycle"
    /\ Acyclic(call.projects)
    /\ call.fromId # call.toId
    /\ call.result
    /\ call.fromId \notin DepsOf(call.projects, call.toId)

(* C4: on an acyclic graph topologicalSort returns every task id exactly once,
   each dependency before every task that depends on it. *)
C4_DependenciesFirst ==
    (call.fn = "topologicalSort" /\ Acyclic(call.projects))
    => /\ ~call.result.isNull
       /\ IsOrderOfAll(call.projects, call.result.order)
       /\ DependenciesFirst(call.projects, call.result.order)

(* C5: topologicalSort returns null if and only if the graph has a cycle, a
   self-dependency included. *)
C5_NullIffCycle ==
    call.fn = "topologicalSort" => (call.result.isNull <=> ~Acyclic(call.projects))

\* null returned for a list whose only cycle is a self-dependency
C5_Witness ==
    /\ call.fn = "topologicalSort"
    /\ call.result.isNull
    /\ \E id \in Ids : id \in DepsOf(call.projects, id)
    /\ \A a \in Ids, b \in Ids : (a # b /\ DependsOn(call.projects, a, b))
                                   => ~DependsOn(call.projects, b, a)

(* C6: on an order with dependencies first, calculateEarliestTimes gives a
   task without dependencies ES = 0, any other task ES = the largest EF of
   its dependencies, and every task EF = ES + estimatedDays. *)
C6_EarliestTimes ==
    call.fn = "calculateTimes" =>
        /\ ~call.earliest.threw
        /\ call.earliest.times.keys = call.topoOrder
        /\ \A id \in ProjectIds(call.projects) :
              LET t == call.earliest.times.val
                  deps == DepsOf(call.projects, id)
              IN /\ t[id].es = (IF deps = {} THEN 0 ELSE SetMax({t[d].ef : d \in deps}))
                 /\ t[id].ef = t[id].es + DaysOf(call.projects, id)

\* a task whose dependencies finish at different times
C6_Witness ==
    /\ call.fn = "calculateTimes"
    /\ \E id \in Ids, d1 \in Ids, d2 \in Ids :
          /\ {d1, d2} \subseteq DepsOf(call.projects, id)
          /\ call.earliest.times.val[d1].ef < call.earliest.times.val[d2].ef
          /\ call.earliest.times.val[id].es = call.earliest.times.val[d2].ef

(* C7: on an order with dependencies first and the earliest times of that
   order, calculateLatestTimes gives a task nothing depends on LF = H = the
   largest EF of all tasks, any other task LF = the smallest LS of its
   dependents, and every task LS = LF - estimatedDays, slack = LS - ES and
   isCritical exactly when slack is 0. *)
C7_LatestTimes ==
    call.fn = "calculateTimes" =>
        /\ ~call.latest.threw
        /\ \A id \in ProjectIds(call.projects) :
              LET t == call.latest.times.val
                  H == SetMax({t[x].ef : x \in ProjectIds(call.projects)})
                  succ == DependentsOf(call.projects, id)
              IN /\ t[id].lf = (IF succ = {} THEN H ELSE SetMin({t[x].ls : x \in succ}))
                 /\ t[id].ls = t[id].lf - DaysOf(call.projects, id)
                 /\ t[id].slack = t[id].ls - t[id].es
                 /\ t[id].isCritical = (t[id].slack = 0)
                 /\ t[id].es = call.earliest.times.val[id].es
                 /\ t[id].ef = call.earliest.times.val[id].ef

\* a task with slack whose dependents start at different latest times
C7_Witness ==
    /\ call.fn = "calculateTimes"
    /\ \E id \in Ids, s1 \in Ids, s2 \in Ids :
          /\ {s1, s2} \subseteq DependentsOf(call.projects, id)
          /\ call.latest.times.val[s1].ls < call.latest.times.val[s2].ls
          /\ call.latest.times.val[id].lf = call.latest.times.val[s1].ls
    /\ \E id \in Ids : call.latest.times.val[id].slack > 0

(* C8: the time records of one recomputation of the component on an acyclic
   graph have ES <= LS and EF <= LF for every task. *)
C8_NonNegativeSlack ==
    (call.fn = "recomputation" /\ Acyclic(call.projects))
    => /\ ~call.result.hasCycle /\ ~call.result.threw
       /\ \A id \in ProjectIds(call.projects) :
             LET t == call.result.times.val[id]
             IN t.es <= t.ls /\ t.ef <= t.lf

(* C9: the time records of one recomputation of the component on a nonempty
   acyclic graph hold a task with slack 0, so the critical path is not empty. *)
C9_CriticalPathExists ==
    (call.fn = "recomputation" /\ Acyclic(call.projects) /\ Len(call.projects) > 0)
    => /\ \E id \in ProjectIds(call.projects) : call.result.times.val[id].slack = 0
       /\ call.result.criticalPath # <<>>

(* C10: one recomputation on the task list 1 (3 days), 2 (2 days, depends on
   1), 3 (4 days, depends on 1) gives ES/EF 0/3, 3/5, 3/7, horizon 7 and
   LS/LF/slack 0/3/0, 5/7/2, 3/7/0. *)
C10_ScenarioA ==
    (call.fn = "recomputation" /\ call.projects = ScenarioA)
    => LET t == call.result.times.val
       IN /\ t[1].es = 0 /\ t[1].ef = 3 /\ t[1].ls = 0 /\ t[1].lf = 3 /\ t[1].slack = 0
          /\ t[2].es = 3 /\ t[2].ef = 5 /\ t[2].ls = 5 /\ t[2].lf = 7 /\ t[2].slack = 2
          /\ t[3].es = 3 /\ t[3].ef = 7 /\ t[3].ls = 3 /\ t[3].lf = 7 /\ t[3].slack = 0
          /\ call.result.totalDuration = 7

(* C11: in the results of one recomputation of the component on an acyclic
   graph, the total duration is the largest EF of all tasks and is the LF of
   every task that no other task depends on, the last task of a shorter
   chain that is not connected to the longest one included. *)
C11_HorizonConsistency ==
    (call.fn = "recomputation" /\ Acyclic(call.projects) /\ Len(call.projects) > 0)
    => LET t == call.result.times.val
           ids == ProjectIds(call.projects)
       IN /\ ~call.result.hasCycle /\ ~call.result.threw
          /\ call.result.totalDuration = SetMax({t[id].ef : id \in ids})
          /\ \A id \in ids : DependentsOf(call.projects, id) = {}
                                => t[id].lf = call.result.totalDuration

\* the last task of a chain finishes before the horizon that another chain sets
C11_Witness ==
    /\ call.fn = "recomputation"
    /\ Acyclic(call.projects)
    /\ \E id \in Ids, other \in Ids :
          /\ DependentsOf(call.projects, id) = {}
          /\ DepsOf(call.projects, id) # {}
          /\ ~DependsOn(call.projects, other, id) /\ ~DependsOn(call.projects, id, other)
          /\ call.result.times.val[id].ef < call.result.totalDuration
          /\ call.result.times.val[other].ef = call.result.totalDuration
          /\ call.result.times.val[id].lf = call.result.totalDuration

(* C12: findCriticalPath, on the times the two passes give for an order with
   dependencies first, returns the critical tasks from start to end: a
   critical task that another critical task depends on comes before it; for
   Scenario A the result is [1, 3]. *)
C12_CriticalPathOrder ==
    call.fn = "calculateTimes" =>
        /\ \A a \in Range(call.criticalPath), b \in Range(call.criticalPath) :
              b \in DepsOf(call.projects, a)
              => Position(call.criticalPath, b) < Position(call.criticalPath, a)
        /\ call.projects = ScenarioA => call.criticalPath = <<1, 3>>

(* C14: a click on Add Dependency while the dependent id or the dependency id
   names no task of the current list is rejected: an error is shown, the
   commit callback is not called and no dependency list changes. *)
C14_UnknownTaskRejected ==
    [][(handleAddDependency
          /\ (selectedFrom \notin ProjectIds(projects)
                \/ selectedTo \notin ProjectIds(projects)))
       => (error' # NoError /\ ~committed' /\ projects' = projects
             /\ localStorage' = localStorage)]_vars

(* C15: a task list is not taken over as the component's current list when one
   of its dependency ids names no task of the list. *)
C15_LoadValidated ==
    [][(\E S \in SUBSET Ids : UpdateDependencyProjects(S)) => AllDepsExist(projects')]_vars

(* C16: a click on Add Dependency with the same project as dependent and as
   dependency is answered with the self-dependency message, the first check
   after the one for an empty selection and so before detectCycle, without
   calling the commit callback and with every dependency list as it was. *)
C16_SelfDependencyRejected ==
    [][(handleAddDependency /\ selectedFrom = selectedTo)
       => (error' = ErrorSelf /\ ~committed' /\ projects' = projects
             /\ localStorage' = localStorage
             /\ selectedFrom' = selectedFrom /\ selectedTo' = selectedTo)]_vars

\* the state a rejected self-dependency leaves, on a graph that has an edge
C16_Witness ==
    /\ error = ErrorSelf
    /\ ~committed
    /\ selectedFrom # Null /\ selectedFrom = selectedTo
    /\ \E id \in Ids : DepsOf(projects, id) # {}

(* C17: a click on Add Dependency for a dependency the dependent already lists
   changes no dependency list, adds no second entry and reports no error. *)
C17_ExistingEdgeNoError ==
    [][(handleAddDependency /\ selectedFrom # selectedTo
          /\ DependencyExists(projects, selectedFrom, selectedTo))
       => (projects' = projects /\ localStorage' = localStorage /\ error' = NoError)]_vars

(* C18: handleRemoveDependency(projectId, dependencyId) leaves every
   dependency list as it was when projectId names no project or the project
   does not list dependencyId; otherwise it takes dependencyId, and nothing
   else, out of that project's list and leaves every other project as it was. *)
C18_RemoveFrame ==
    [][\* a step that changes nothing satisfies [A]_vars, and a removal leaves the
       \* selection and the message alone: the other steps are not looked into
       (vars' # vars /\ selectedFrom' = selectedFrom /\ selectedTo' = selectedTo
          /\ error' = error)
       => \A projectId \in Ids \cup {UnknownId}, dependencyId \in Ids :
          handleRemoveDependency(projectId, dependencyId)
          => IF dependencyId \in DepsOf(projects, projectId)
             THEN /\ Len(projects') = Len(projects)
                  /\ \A i \in 1..Len(projects) :
                        IF projects[i].id = projectId
                        THEN /\ projects'[i].id = projectId
                             /\ projects'[i].estimatedDays = projects[i].estimatedDays
                             /\ projects'[i].dependencies =
                                  SelectSeq(projects[i].dependencies,
                                            LAMBDA x : x # dependencyId)
                             /\ Len(projects'[i].dependencies) =
                                  Len(projects[i].dependencies) - 1
                        ELSE projects'[i] = projects[i]
             ELSE projects' = projects /\ localStorage' = localStorage]_vars

\* the cycle message of a rejected request still shown after a removal has broken
\* the chain it was about, while another dependency is still listed
C18_Witness ==
    /\ error = ErrorCycle
    /\ selectedFrom # Null /\ selectedTo # Null /\ selectedFrom # selectedTo
    /\ ~DependsOn(projects, selectedTo, selectedFrom)
    /\ \E id \in Ids : DepsOf(projects, id) # {}

(* C19: in every state of the component, before and after every accepted or
   rejected click on Add Dependency and every removal, the time records, the
   critical path, the total duration and the cycle flag that the last render
   left are those of one recomputation on the current task list. *)
C19_OneRecomputation ==
    rendered # NoRender
    => LET r == Recomputation(projects)
       IN /\ rendered.projectsWithColors = projects
          /\ rendered.hasCycle = r.hasCycle
          /\ rendered.times.isNull = r.hasCycle
          /\ rendered.times.times = r.times
          /\ rendered.criticalPath = r.criticalPath
          /\ rendered.totalDuration = r.totalDuration

\* a rejected request after an accepted one: the records shown are no longer
\* those of the first render
C19_Witness ==
    /\ rendered # NoRender
    /\ error = ErrorCycle /\ ~committed
    /\ \E id \in Ids : DepsOf(projects, id) # {}
    /\ LET first == [i \in 1..Len(projects) |-> [projects[i] EXCEPT !.dependencies = <<>>]]
       IN /\ rendered.times.times # Recomputation(first).times
          /\ rendered.criticalPath # Recomputation(first).criticalPath

(* C20: a put of a key the cache does not hold, into a cache that holds
   capacity entries, removes exactly the entry whose latest access (a put, or
   a get that found it) is the oldest and keeps every other entry with its
   value; a put of a key the cache holds removes no entry; the key put is held
   with the value put in every case. *)
C20_EvictsLeastRecent ==
    [][\A key \in LRUKeys, value \in LRUValues :
          Put(key, value)
          => LET held == SelectSeq(recency, LAMBDA k : k \in lruCache.cache)
                 kept == IF key \notin lruCache.cache
                            /\ Cardinality(lruCache.cache) = lruCache.capacity
                         THEN lruCache.cache \ {held[Len(held)]}
                         ELSE lruCache.cache
             IN /\ lruCache'.cache = kept \cup {key}
                /\ LRU_get(lruCache', key).result = value
                /\ \A k \in kept \ {key} :
                      LRU_get(lruCache', k).result = LRU_get(lruCache, k).result
                /\ \A k \in LRUKeys \ (kept \cup {key}) :
                      LRU_get(lruCache', k).result = Undefined]_vars

\* a put into a full cache of two or more entries has evicted one: the key whose
\* latest access is the oldest of the history is not held
C20_Witness ==
    /\ call.fn = "put" /\ call.evicted
    /\ lruCache.capacity >= 2
    /\ Len(recency) > lruCache.capacity
    /\ recency[Len(recency)] \notin lruCache.cache

(* C21: after any sequence of put, get, delete and clear, getSize() is the
   number of keys for which get returns a value, and it is at most the
   capacity the cache was constructed with. *)
C21_SizeIsKeyCount ==
    lruCache # NoCache
    => /\ LRU_getSize(lruCache) =
             Cardinality({k \in LRUKeys : LRU_get(lruCache, k).result # Undefined})
       /\ LRU_getSize(lruCache) <= lruCache.capacity
       /\ lruCache.capacity \in 1..MaxCapacity

\* a delete has found its key in a cache that had evicted another one before
C21_Witness ==
    /\ call.fn = "delete" /\ call.result = TRUE
    /\ LRU_getSize(lruCache) >= 1
    /\ \E k \in Range(recency) : k \notin lruCache.cache

(* C22: getEntries lists the entries held from the one accessed last (by a put
   or by a get that found it) to the one accessed longest ago, each with the
   value get returns for it; right after a get that found its key, that key
   is the first entry. *)
C22_EntriesByRecency ==
    lruCache # NoCache
    => LET entries == LRU_getEntries(lruCache)
       IN /\ [i \in 1..Len(entries) |-> entries[i].key]
                = SelectSeq(recency, LAMBDA k : k \in lruCache.cache)
          /\ \A i \in 1..Len(entries) :
                entries[i].value = LRU_get(lruCache, entries[i].key).result
          /\ (call.fn = "get" /\ call.result # Undefined) => entries[1].key = call.key

\* a get has found its key among two or more entries, after an eviction
C22_Witness ==
    /\ call.fn = "get" /\ call.result # Undefined
    /\ Len(LRU_getEntries(lruCache)) >= 2
    /\ LRU_getEntries(lruCache)[1].key = call.key
    /\ \E k \in Range(recency) : k \notin lruCache.cache

(* C23: when the fetch of a fetchWithCache call fails, the call rejects with
   the fetch error, whatever NODE_ENV is and whatever the URL, and never
   resolves with substitute data. *)
C23_FetchErrorRejects ==
    (call.fn = "fetchWithCache" /\ call.fetch \notin {"none", "ok"})
        => call.settled = "rejected" /\ call.value = call.fetch

\* the keys whose response was cached and not evicted since: the capacity most recent
StillCached ==
    Range(SubSeq(recency, 1, IF Len(recency) < lruCache.capacity THEN Len(recency) ELSE lruCache.capacity))

(* C24: every fetchWithCache call counts exactly one hit or one miss. It is a
   hit, returning the cached data without a fetch, exactly when an earlier call
   for the same URL and options had its fetch succeed and the entry was not
   evicted or cleared since; otherwise it is a miss that calls fetch, and the
   fetch, when it succeeds, caches its response under the call's key. The
   settling of a fetch counts neither a hit nor a miss. *)
C24_HitOrMiss ==
    [][(vars' # vars /\ call'.fn = "fetchWithCache")
        => IF call'.fetch = "none"
           THEN /\ call'.hit <=> call'.key \in StillCached
                /\ call'.hit
                     => /\ apiClient'.hitCount = apiClient.hitCount + 1
                        /\ apiClient'.missCount = apiClient.missCount
                        /\ fetches' = fetches
                        /\ call'.settled = "resolved"
                        /\ call'.value # Undefined
                        /\ call'.value = LRU_get(lruCache, call'.key).result
                /\ ~call'.hit
                     => /\ apiClient'.missCount = apiClient.missCount + 1
                        /\ apiClient'.hitCount = apiClient.hitCount
                        /\ Len(fetches') = Len(fetches) + 1
                        /\ fetches'[Len(fetches')].key = call'.key
                        /\ call'.settled = "pending"
           ELSE /\ apiClient'.hitCount = apiClient.hitCount
                /\ apiClient'.missCount = apiClient.missCount
                /\ call'.fetch = "ok"
                     => /\ LRU_get(lruCache', call'.key).result = call'.value
                        /\ call'.key \in StillCached'
                /\ call'.fetch # "ok" => lruCache' = lruCache
       ]_vars

\* the second of two calls for one request, after the first one's fetch succeeded
C24_Witness ==
    /\ call.fn = "fetchWithCache"
    /\ call.hit
    /\ apiClient.hitCount = 1
    /\ apiClient.missCount = 1
    /\ apiClient.errorCount = 0
    /\ LRU_getSize(lruCache) = 1

(* C25: removeItem(item) returns true whenever item is in the index, whatever
   other items the index holds, and hasItem(item) is false afterwards. *)
C25_RemoveItemReturnsTrue ==
    (call.fn = "removeItem" /\ call.held)
        => call.result = TRUE /\ ~hasItem(trie, call.item)

\* the proper prefixes and the word itself
PrefixesOf(word) == {SubSeq(word, 1, k) : k \in 0..Len(word)}

(* C26: after remove(w), search(w) is false, and every other word inserted and
   not removed is still found by search and listed by startsWith for each of
   its prefixes; removing a word that is not in the trie changes nothing. *)
C26_RemoveFrame ==
    [][call'.fn = "removeItem"
        => LET w == ToLowerCase(call'.item)
           IN /\ ~Trie_search(trie', call'.item)
              /\ \A v \in indexed \ {w} :
                    /\ Trie_search(trie', v)
                    /\ \A prefix \in PrefixesOf(v) : Includes(Trie_startsWith(trie', prefix), v)
              /\ w \notin indexed => trie' = trie
       ]_vars

\* a held word was removed while a prefix of it and an extension of it stay held
C26_Witness ==
    /\ call.fn = "removeItem"
    /\ call.held
    /\ \E u \in indexed, v \in indexed :
          LET w == ToLowerCase(call.item)
          IN /\ u \in PrefixesOf(w)
             /\ w \in PrefixesOf(v)
             /\ Trie_search(trie, u)
             /\ Trie_search(trie, v)

(* C30: after any sequence of inserts and removes the trie has no orphaned
   branch: every node other than the root that has no children marks the end of
   a word that was inserted and not removed since. *)
C30_NoOrphanedBranch ==
    \A path \in DOMAIN trie :
        (path # <<>> /\ Len(trie[path].children) = 0)
            => trie[path].isEndOfWord /\ path \in indexed

\* a remove deleted the nodes of its word up to a node that another word needs
C30_Witness ==
    /\ call.fn = "removeItem"
    /\ call.held
    /\ Len(call.item) >= 2
    /\ ToLowerCase(call.item) \notin DOMAIN trie
    /\ SubSeq(ToLowerCase(call.item), 1, 1) \in DOMAIN trie
    /\ Cardinality(indexed) >= 2

(* C27: fuzzySearch tolerates a one-character typo in the query: a search of
   the fields name and description for "moble" returns every item named
   "Mobile App Redesign", with score 25. *)
C27_TypoTolerated ==
    (call.fn = "fuzzySearch"
       /\ searchArgs.query = "moble"
       /\ searchArgs.fields = <<"name", "description">>)
        => \A i \in 1..Len(searchArgs.items) :
              searchArgs.items[i].name = "Mobile App Redesign"
                  => \E j \in 1..Len(call.results) :
                        /\ call.results[j].item = searchArgs.items[i]
                        /\ call.results[j].score = 25

\* the ids that the times mark critical
CriticalIds(times) == {id \in Range(times.keys) : times.val[id].isCritical}

\* path lists every id of S exactly once and nothing else
ListsExactly(path, S) == Range(path) = S /\ Len(path) = Cardinality(S)

(* C28: for the times of an acyclic graph, findCriticalPath returns every task
   whose isCritical is set exactly once and no other task; it is the empty
   sequence when no task is critical. *)
C28_CriticalPathMembers ==
    /\ (call.fn = "calculateTimes" /\ ~call.latest.threw)
          => ListsExactly(call.criticalPath, CriticalIds(call.latest.times))
    /\ (call.fn = "recomputation" /\ ~call.result.hasCycle /\ ~call.result.threw)
          => ListsExactly(call.result.criticalPath, CriticalIds(call.result.times))

\* a chain of critical tasks beside a task with slack
C28_Witness ==
    /\ call.fn = "calculateTimes"
    /\ ~call.latest.threw
    /\ Len(call.criticalPath) >= 2
    /\ \E a \in Range(call.criticalPath), b \in Range(call.criticalPath) :
          b \in DepsOf(call.projects, a)
    /\ \E id \in ProjectIds(call.projects) : id \notin Range(call.criticalPath)

(* C29: for any task list, with cycles, self-dependencies or dependency ids
   that name no task, topologicalSort returns null or an order that holds every
   task id exactly once: never an id that is absent from the list, never an
   order that omits a task. *)
C29_NullOrEveryTask ==
    call.fn = "topologicalSort"
        => call.result.isNull \/ IsOrderOfAll(call.projects, call.result.order)


====
